---- MODULE Spec2Model ----
(***************************************************************************)
(* Full-page screenshot extension: the capture-and-stitch pipeline of      *)
(* background.js (message listener, captureFullPageSimple, stitchSimple).  *)
(*                                                                         *)
(* Lengths are CSS pixels.  devicePixelRatio is a real number; it is kept  *)
(* as the integer dpr2 = 2 * dpr, and every device-pixel coordinate the    *)
(* stitcher computes is kept as twice its value (suffix 2), so that        *)
(* dpr = 2.5 and its products are exact.                                   *)
(***************************************************************************)
EXTENDS Integers, Sequences, FiniteSets, TLC

\* ---- bounds of the model ----
MaxViewport == 10
MaxScrollHeight == 30
MaxOrigScroll == 1
MaxGrowth == 1
MaxExtraShots == 1
ConcViewport == 2
ConcScrollHeight == 3
ViewportWidth == 2

Sessions == {1, 2}
\* twice the device pixel ratios 1, 2 and 2.5
DprTwice == {2, 4, 5}
Targets == {"document", "element"}

VARIABLES
  page,          \* the tab's page: layout, scroll positions, window.__scrollTarget
  sess,          \* one record per capture session (a call of captureFullPageSimple)
  requestsLeft,  \* captureScreenshot messages still to arrive
  hist,          \* per session: what the session has done to the outside world
  dom,           \* the document the injected prober inspects, and what it returned
  popup,         \* the popup: its capture button, status line and click handler
  loader         \* one call of the content script's ensureImagesLoaded

vars == <<page, sess, requestsLeft, hist, dom, popup, loader>>

\* what no step of the background script touches
rest == <<dom, popup, loader>>

Min(a, b) == IF a < b THEN a ELSE b
Max(a, b) == IF a > b THEN a ELSE b
CeilDiv(a, b) == (a + b - 1) \div b

\* ---- pure computations of the code ----

\* const stepSize = Math.floor(viewportHeight * 0.7)
\* (for viewportHeight < 90 the double product floors to the exact quotient)
StepSize(viewportHeight) == (7 * viewportHeight) \div 10

LoopCond_OffByOne(position, scrollHeight) == position <= scrollHeight

\* while (position < scrollHeight)
LoopCond(position, scrollHeight) == position < scrollHeight

NextPosition_Assign(position, stepSize) == stepSize

\* position += stepSize
NextPosition(position, stepSize) == position + stepSize

ScrollCond_Always(position, scrollHeight) == TRUE

\* if (position < scrollHeight) { scroll to position; settle }
ScrollCond(position, scrollHeight) == position < scrollHeight

\* the browser's clamping of an assignment to scrollTop / of window.scrollTo
ClampScroll(pos, height, visible) == Max(0, Min(pos, height - visible))

\* ---- the page ----

\* the scroll target the marker resolves to in the scroll driver
MarkerTarget(m) == IF m = "element" THEN "element" ELSE "document"

\* the injected prober: which target qualifies, and the geometry it returns
ProbeTarget(p) == IF p.hasInner /\ p.height > p.viewportHeight THEN "element" ELSE "document"

ProbeInfo(p) ==
  [ scrollHeight   |-> p.height,
    currentScroll  |-> p.scrollTop[ProbeTarget(p)],
    viewportHeight |-> p.viewportHeight,
    viewportWidth  |-> p.viewportWidth,
    dpr2           |-> p.dpr2 ]

NoInfo == [ scrollHeight |-> 0, currentScroll |-> 0, viewportHeight |-> 0,
            viewportWidth |-> 0, dpr2 |-> 2 ]

IdleSession ==
  [ pc |-> "idle", info |-> NoInfo, stepSize |-> 0, position |-> 0,
    screenshots |-> <<>>, draws |-> <<>>, error |-> "none" ]

\* the calls a session has made so far, in order, and the responses sent
NoHist == [ log |-> <<>>, responses |-> <<>> ]

Op(name, arg, ok) == [ op |-> name, arg |-> arg, ok |-> ok ]

Pages(maxV, maxH, dprs) ==
  { [ height |-> h, viewportHeight |-> v, viewportWidth |-> ViewportWidth,
      dpr2 |-> d, bitmapHeight |-> b, hasInner |-> inner,
      scrollTop |-> [t \in Targets |-> IF t = (IF inner /\ h > v THEN "element" ELSE "document")
                                       THEN o ELSE 0],
      marker |-> "unset", grown |-> 0 ] :
      h \in 0..maxH, v \in 0..maxV, d \in dprs,
      b \in 0..((maxV * 5 + 1) \div 2),
      inner \in BOOLEAN, o \in 0..MaxOrigScroll }

\* a page the browser can show: the bitmap of the visible tab has the
\* viewport's height in device pixels, rounded down or up, and the scroll
\* position is within the scroll range
PageOk(p) ==
  /\ p.bitmapHeight \in { (p.viewportHeight * p.dpr2) \div 2,
                          (p.viewportHeight * p.dpr2 + 1) \div 2 }
  /\ \A t \in Targets : p.scrollTop[t] = ClampScroll(p.scrollTop[t], p.height, p.viewportHeight)

\* the parts of the extension that take no part in a behaviour
NoDom == [ phase |-> "none" ]
NoPopup == [ phase |-> "none" ]
NoLoader == [ phase |-> "none" ]

Init ==
  /\ page \in { p \in Pages(MaxViewport, MaxScrollHeight, DprTwice) : PageOk(p) }
  /\ sess = [s \in Sessions |-> IdleSession]
  /\ hist = [s \in Sessions |-> NoHist]
  /\ requestsLeft = 1
  /\ dom = NoDom /\ popup = NoPopup /\ loader = NoLoader

\* two requests for the same tab, on a smaller range of pages
InitConc ==
  /\ page \in { p \in Pages(ConcViewport, ConcScrollHeight, {2}) : PageOk(p) }
  /\ sess = [s \in Sessions |-> IdleSession]
  /\ hist = [s \in Sessions |-> NoHist]
  /\ requestsLeft = 2
  /\ dom = NoDom /\ popup = NoPopup /\ loader = NoLoader

\* ---- the message listener ----

\* chrome.runtime.onMessage: a captureScreenshot request starts a session
Request(s) ==
  /\ requestsLeft > 0
  /\ sess[s].pc = "idle"
  /\ \A t \in Sessions : t < s => sess[t].pc # "idle"
  /\ sess' = [sess EXCEPT ![s].pc = "probe"]
  /\ requestsLeft' = requestsLeft - 1
  /\ UNCHANGED <<page, hist, rest>>


ResponseOf_AlwaysOk(pc, error) == [ success |-> TRUE, error |-> "none" ]

\* sendResponse, from the .then or the .catch of the listener
ResponseOf(pc, error) ==
  IF pc = "done" THEN [ success |-> TRUE, error |-> "none" ]
  ELSE [ success |-> FALSE, error |-> error ]

Respond(s) ==
  /\ sess[s].pc \in {"done", "failed"}
  /\ hist' = [hist EXCEPT ![s].responses = Append(@, ResponseOf(sess[s].pc, sess[s].error))]
  /\ sess' = [sess EXCEPT ![s].pc = "closed"]
  /\ UNCHANGED <<page, requestsLeft, rest>>

\* ---- captureFullPageSimple ----

\* a rejected await: the catch block rethrows, the session is over
Fail(s, name, arg, kind) ==
  /\ sess' = [sess EXCEPT ![s].pc = "failed", ![s].error = kind]
  /\ hist' = [hist EXCEPT ![s].log = Append(@, Op(name, arg, FALSE))]
  /\ UNCHANGED <<page, requestsLeft, rest>>

\* the page after the scroll driver has run with offset pos
Scrolled(p, pos) ==
  [p EXCEPT !.scrollTop[MarkerTarget(p.marker)] = ClampScroll(pos, p.height, p.viewportHeight)]

Probe_NoAbort(s) ==
  /\ sess[s].pc = "probe"
  /\ \/ /\ page' = [page EXCEPT !.marker = IF ProbeTarget(page) = "element" THEN "element" ELSE "null"]
        /\ sess' = [sess EXCEPT ![s].pc = "scrollTop", ![s].info = ProbeInfo(page)]
        /\ hist' = [hist EXCEPT ![s].log = Append(@, Op("probe", page.scrollTop[ProbeTarget(page)], TRUE))]
        /\ UNCHANGED <<requestsLeft, rest>>
     \/ /\ sess' = [sess EXCEPT ![s].pc = "scrollTop"]
        /\ hist' = [hist EXCEPT ![s].log = Append(@, Op("probe", 0, FALSE))]
        /\ UNCHANGED <<page, requestsLeft, rest>>

\* Get page dimensions: the injected prober
Probe(s) ==
  /\ sess[s].pc = "probe"
  /\ \/ /\ page' = [page EXCEPT !.marker = IF ProbeTarget(page) = "element" THEN "element" ELSE "null"]
        /\ sess' = [sess EXCEPT ![s].pc = "scrollTop", ![s].info = ProbeInfo(page)]
        /\ hist' = [hist EXCEPT ![s].log = Append(@, Op("probe", page.scrollTop[ProbeTarget(page)], TRUE))]
        /\ UNCHANGED <<requestsLeft, rest>>
     \/ Fail(s, "probe", 0, "ProbeFailed")

\* Scroll to top first
ScrollTop(s) ==
  /\ sess[s].pc = "scrollTop"
  /\ \/ /\ page' = Scrolled(page, 0)
        /\ sess' = [sess EXCEPT ![s].pc = "settleTop"]
        /\ hist' = [hist EXCEPT ![s].log = Append(@, Op("scroll", 0, TRUE))]
        /\ UNCHANGED <<requestsLeft, rest>>
     \/ Fail(s, "scroll", 0, "ScrollFailed")

\* the 500 ms delay, then stepSize, screenshots = [], position = 0
SettleTop(s) ==
  /\ sess[s].pc = "settleTop"
  /\ sess' = [sess EXCEPT ![s].pc = "loop",
                          ![s].stepSize = StepSize(sess[s].info.viewportHeight),
                          ![s].screenshots = <<>>,
                          ![s].position = 0]
  /\ hist' = [hist EXCEPT ![s].log = Append(@, Op("settle", 500, TRUE))]
  /\ UNCHANGED <<page, requestsLeft, rest>>

\* with a positive step the loop needs at most scrollHeight passes; of a
\* session whose step is 0 the first MaxExtraShots passes more than that are
\* recorded, and the loop goes on turning with its later passes unrecorded
ShotCap(scrollHeight) == scrollHeight + MaxExtraShots

Recording(s) == Len(sess[s].screenshots) < ShotCap(sess[s].info.scrollHeight)

\* the log after a call that follows the call named prev: the calls of an
\* unrecorded pass are not appended
Logged(s, prev, op) ==
  IF hist[s].log[Len(hist[s].log)].op = prev
  THEN [hist EXCEPT ![s].log = Append(@, op)]
  ELSE hist

\* one pass of the while loop up to its next await: captureVisibleTab,
\* screenshots.push, position += stepSize, and the test that guards the scroll
Capture(s) ==
  /\ sess[s].pc = "loop"
  /\ LoopCond(sess[s].position, sess[s].info.scrollHeight)
  /\ \/ /\ LET shot == [ position |-> sess[s].position,
                         height   |-> page.bitmapHeight,
                         shownAt  |-> page.scrollTop ]
               next == NextPosition(sess[s].position, sess[s].stepSize)
           IN sess' = [sess EXCEPT ![s].screenshots = IF Recording(s) THEN Append(@, shot) ELSE @,
                                   ![s].position = next,
                                   ![s].pc = IF ScrollCond(next, sess[s].info.scrollHeight)
                                             THEN "scroll" ELSE "loop"]
        /\ hist' = IF Recording(s)
                   THEN [hist EXCEPT ![s].log = Append(@, Op("capture", sess[s].position, TRUE))]
                   ELSE hist
        /\ UNCHANGED <<page, requestsLeft, rest>>
     \/ Fail(s, "capture", sess[s].position, "CaptureFailed")

ScrollStep_NoSettle(s) ==
  /\ sess[s].pc = "scroll"
  /\ \/ /\ page' = Scrolled(page, sess[s].position)
        /\ sess' = [sess EXCEPT ![s].pc = "loop"]
        /\ hist' = Logged(s, "capture", Op("loopscroll", sess[s].position, TRUE))
        /\ UNCHANGED <<requestsLeft, rest>>
     \/ /\ hist[s].log[Len(hist[s].log)].op = "capture"
        /\ Fail(s, "loopscroll", sess[s].position, "ScrollFailed")

\* the scroll driver inside the loop, called with args: [position]; its
\* failure is followed in the recorded passes
ScrollStep(s) ==
  /\ sess[s].pc = "scroll"
  /\ \/ /\ page' = Scrolled(page, sess[s].position)
        /\ sess' = [sess EXCEPT ![s].pc = "settle"]
        /\ hist' = Logged(s, "capture", Op("loopscroll", sess[s].position, TRUE))
        /\ UNCHANGED <<requestsLeft, rest>>
     \/ /\ hist[s].log[Len(hist[s].log)].op = "capture"
        /\ Fail(s, "loopscroll", sess[s].position, "ScrollFailed")

\* the 800 ms delay at the end of a pass
Settle(s) ==
  /\ sess[s].pc = "settle"
  /\ sess' = [sess EXCEPT ![s].pc = "loop"]
  /\ hist' = Logged(s, "loopscroll", Op("settle", 800, TRUE))
  /\ UNCHANGED <<page, requestsLeft, rest>>

Restore_ToTop(s) ==
  /\ sess[s].pc = "loop"
  /\ ~LoopCond(sess[s].position, sess[s].info.scrollHeight)
  /\ \/ /\ page' = Scrolled(page, 0)
        /\ sess' = [sess EXCEPT ![s].pc = "stitch"]
        /\ hist' = [hist EXCEPT ![s].log = Append(@, Op("restore", 0, TRUE))]
        /\ UNCHANGED <<requestsLeft, rest>>
     \/ Fail(s, "restore", 0, "ScrollFailed")

\* Restore scroll: reached when the loop condition is false
Restore(s) ==
  /\ sess[s].pc = "loop"
  /\ ~LoopCond(sess[s].position, sess[s].info.scrollHeight)
  /\ \/ /\ page' = Scrolled(page, sess[s].info.currentScroll)
        /\ sess' = [sess EXCEPT ![s].pc = "stitch"]
        /\ hist' = [hist EXCEPT ![s].log = Append(@, Op("restore", sess[s].info.currentScroll, TRUE))]
        /\ UNCHANGED <<requestsLeft, rest>>
     \/ Fail(s, "restore", sess[s].info.currentScroll, "ScrollFailed")

\* ---- stitchSimple ----

\* const canvasWidth = viewportWidth * dpr; const canvasHeight = totalHeight * dpr
CanvasWidth2(viewportWidth, dpr2) == viewportWidth * dpr2
CanvasHeight2(totalHeight, dpr2) == totalHeight * dpr2

\* new OffscreenCanvas(w, h) converts its arguments to unsigned integers by
\* truncation: the rows the canvas really has
CanvasRows(totalHeight, dpr2) == CanvasHeight2(totalHeight, dpr2) \div 2

\* const overlapPx = (viewportHeight - stepSize) * dpr
OverlapPx2(viewportHeight, stepSize, dpr2) == (viewportHeight - stepSize) * dpr2

\* const sourceHeight = img.height - overlapPx
SourceHeight2(imgHeight, overlap2) == 2 * imgHeight - overlap2

\* const destY = y + overlapPx, with y = position * dpr
DestY2(position, dpr2, overlap2) == position * dpr2 + overlap2

\* if (sourceHeight > 0 && destY < canvasHeight)
DrawCond(sourceHeight2, destY2, canvasHeight2) == sourceHeight2 > 0 /\ destY2 < canvasHeight2

\* the drawImage call (or its omission) for screenshots[i - 1]; arrays in the
\* code are 0-based, sequences here are 1-based
DrawOf(i, shot, info, stepSize) ==
  LET overlap2 == OverlapPx2(info.viewportHeight, stepSize, info.dpr2)
      canvasHeight2 == CanvasHeight2(info.scrollHeight, info.dpr2)
  IN IF i = 1
     THEN [ drawn |-> TRUE, full |-> TRUE, sourceY2 |-> 0,
            destY2 |-> shot.position * info.dpr2, height2 |-> 2 * shot.height ]
     ELSE [ drawn |-> DrawCond(SourceHeight2(shot.height, overlap2),
                               DestY2(shot.position, info.dpr2, overlap2), canvasHeight2),
            full |-> FALSE, sourceY2 |-> overlap2,
            destY2 |-> DestY2(shot.position, info.dpr2, overlap2),
            height2 |-> SourceHeight2(shot.height, overlap2) ]

StitchDraws(screenshots, info, stepSize) ==
  [ i \in 1..Len(screenshots) |-> DrawOf(i, screenshots[i], info, stepSize) ]

Stitch_PartialOutput(s) ==
  /\ sess[s].pc = "stitch"
  /\ \/ /\ sess' = [sess EXCEPT ![s].pc = "download",
                                ![s].draws = StitchDraws(sess[s].screenshots, sess[s].info, sess[s].stepSize)]
        /\ hist' = [hist EXCEPT ![s].log = Append(@, Op("stitch", Len(sess[s].screenshots), TRUE))]
        /\ UNCHANGED <<page, requestsLeft, rest>>
     \/ /\ sess' = [sess EXCEPT ![s].pc = "download"]
        /\ hist' = [hist EXCEPT ![s].log = Append(@, Op("stitch", Len(sess[s].screenshots), FALSE))]
        /\ UNCHANGED <<page, requestsLeft, rest>>

\* Stitch together: the call of stitchSimple as one step of the session
Stitch(s) ==
  /\ sess[s].pc = "stitch"
  /\ \/ /\ sess' = [sess EXCEPT ![s].pc = "download",
                                ![s].draws = StitchDraws(sess[s].screenshots, sess[s].info, sess[s].stepSize)]
        /\ hist' = [hist EXCEPT ![s].log = Append(@, Op("stitch", Len(sess[s].screenshots), TRUE))]
        /\ UNCHANGED <<page, requestsLeft, rest>>
     \/ Fail(s, "stitch", Len(sess[s].screenshots), "StitchFailed")

\* Download: chrome.downloads.download
Download(s) ==
  /\ sess[s].pc = "download"
  /\ \/ /\ sess' = [sess EXCEPT ![s].pc = "done"]
        /\ hist' = [hist EXCEPT ![s].log = Append(@, Op("download", 0, TRUE))]
        /\ UNCHANGED <<page, requestsLeft, rest>>
     \/ Fail(s, "download", 0, "DownloadFailed")

\* lazily loaded content makes the page taller while a session runs
PageGrow ==
  /\ page.grown < MaxGrowth
  /\ \E s \in Sessions : sess[s].pc \notin {"idle", "closed"}
  /\ page' = [page EXCEPT !.height = @ + 1, !.grown = @ + 1]
  /\ UNCHANGED <<sess, hist, requestsLeft, rest>>

\* a step of the background script or of the page
SessionStep ==
  \/ \E s \in Sessions :
        \/ Request(s)
        \/ Probe(s)
        \/ ScrollTop(s)
        \/ SettleTop(s)
        \/ Capture(s)
        \/ ScrollStep(s)
        \/ Settle(s)
        \/ Restore(s)
        \/ Stitch(s)
        \/ Download(s)
        \/ Respond(s)
  \/ PageGrow

Next == SessionStep

Spec == Init /\ [][Next]_vars

SpecConc == InitConc /\ [][Next]_vars

\* ---- the injected prober and scroll driver, on a document ----

MaxElemHeight == 2
MaxRootHeight == 2

\* const selectors = [...], in priority order
Selectors == << ".scaffold-layout__list-detail", ".scaffold-layout__list-container",
                "main", "div[role=\"main\"]" >>

\* what document.querySelector(sel) finds: nothing, or an element with its
\* scrollHeight, clientHeight and scrollTop
NoElem == [ present |-> FALSE, scrollHeight |-> 0, clientHeight |-> 0, scrollTop |-> 0 ]
Elems ==
  { NoElem } \cup
  { e \in [ present : {TRUE}, scrollHeight : 1..MaxElemHeight,
             clientHeight : 1..MaxElemHeight, scrollTop : 0..MaxElemHeight ] :
      e.scrollTop \in {0, Max(0, e.scrollHeight - e.clientHeight)} }

Doms ==
  { d \in [ phase : {"loaded"}, elems : [1..Len(Selectors) -> Elems],
             docScrollHeight : 1..MaxRootHeight, bodyScrollHeight : {0, MaxRootHeight},
             innerHeight : 1..MaxRootHeight, scrollY : 0..MaxRootHeight,
             scrollTarget : {"unset"}, result : {"none"} ] :
      d.scrollY \in {0, Max(0, Max(d.docScrollHeight, d.bodyScrollHeight) - d.innerHeight)} }

Qualifies_NonStrict(elem) == elem.present /\ elem.scrollHeight >= elem.clientHeight

\* if (elem && elem.scrollHeight > elem.clientHeight)
Qualifies(elem) == elem.present /\ elem.scrollHeight > elem.clientHeight

\* the for loop over the selectors with its break: the index of the first
\* qualifying element, or 0 for scrollTarget = null
RECURSIVE FindTarget(_, _)
FindTarget(elems, i) ==
  IF i > Len(Selectors) THEN 0
  ELSE IF Qualifies(elems[i]) THEN i
  ELSE FindTarget(elems, i + 1)

\* the object the prober returns
ProberResult(d) ==
  LET scrollTarget == FindTarget(d.elems, 1)
  IN [ scrollTarget  |-> scrollTarget,
       scrollHeight  |-> IF scrollTarget # 0 THEN d.elems[scrollTarget].scrollHeight
                         ELSE Max(d.docScrollHeight, d.bodyScrollHeight),
       currentScroll |-> IF scrollTarget # 0 THEN d.elems[scrollTarget].scrollTop
                         ELSE d.scrollY,
       viewportHeight |-> d.innerHeight ]

NoPage == [ phase |-> "none" ]

InitProber ==
  /\ dom \in Doms
  /\ page = NoPage
  /\ sess = [s \in Sessions |-> IdleSession]
  /\ hist = [s \in Sessions |-> NoHist]
  /\ requestsLeft = 0
  /\ popup = NoPopup /\ loader = NoLoader

\* the prober runs in the page: it sets window.__scrollTarget and returns
RunProber ==
  /\ dom.phase = "loaded"
  /\ dom' = [dom EXCEPT !.phase = "probed",
                        !.scrollTarget = ProberResult(dom).scrollTarget,
                        !.result = ProberResult(dom)]
  /\ UNCHANGED <<page, sess, hist, requestsLeft, popup, loader>>

\* the scroll driver runs in the page with offset pos: it scrolls
\* window.__scrollTarget when that is an element, the window otherwise
RunDriver(pos) ==
  /\ dom.phase \in {"probed", "driven"}
  /\ dom' = IF dom.scrollTarget # 0
            THEN [dom EXCEPT !.phase = "driven",
                             !.elems[dom.scrollTarget].scrollTop =
                                ClampScroll(pos, dom.elems[dom.scrollTarget].scrollHeight,
                                            dom.elems[dom.scrollTarget].clientHeight)]
            ELSE [dom EXCEPT !.phase = "driven",
                             !.scrollY = ClampScroll(pos, Max(dom.docScrollHeight, dom.bodyScrollHeight),
                                                     dom.innerHeight)]
  /\ UNCHANGED <<page, sess, hist, requestsLeft, popup, loader>>

NextProber ==
  \/ RunProber
  \/ \E pos \in 0..MaxElemHeight : RunDriver(pos)

SpecProber == InitProber /\ [][NextProber]_vars

\* ---- the content script: ensureImagesLoaded ----

MaxImages == 3
MaxEvents == 2

\* an img element when the function is called: img.complete, and the load and
\* error events it has fired since
Images ==
  [ complete : BOOLEAN, listening : {FALSE}, events : {0} ]

InitLoader ==
  /\ \E n \in 0..MaxImages :
       loader \in [ phase : {"page"}, images : [1..n -> Images], totalImages : {0},
                    loadedCount : {0}, resolved : {FALSE}, timer : {"none"} ]
  /\ page = NoPage /\ dom = NoDom /\ popup = NoPopup
  /\ sess = [s \in Sessions |-> IdleSession]
  /\ hist = [s \in Sessions |-> NoHist]
  /\ requestsLeft = 0

\* loadedCount after images.forEach has counted the complete images
CountComplete(images) == Cardinality({ i \in DOMAIN images : images[i].complete })

\* if (loadedCount === totalImages) resolve()
CountReached(loadedCount, totalImages) == loadedCount = totalImages

\* the executor of the promise, run synchronously by the call: the early
\* resolve for no images, the forEach that counts complete images and adds the
\* listeners to the others, and setTimeout(resolve, 5000) (not reached after
\* the early return)
EnsureImagesLoaded ==
  /\ loader.phase = "page"
  /\ LET n == Len(loader.images)
         count == CountComplete(loader.images)
     IN loader' = [loader EXCEPT
          !.phase = "called",
          !.totalImages = n,
          !.loadedCount = IF n = 0 THEN 0 ELSE count,
          !.images = [ i \in 1..n |-> [loader.images[i] EXCEPT !.listening = ~loader.images[i].complete] ],
          !.resolved = (n = 0) \/ CountReached(count, n),
          !.timer = IF n = 0 THEN "none" ELSE "pending" ]
  /\ UNCHANGED <<page, sess, hist, requestsLeft, dom, popup>>

\* an image fires load or error: the listener added for it counts and tests
ImageEvent(i) ==
  /\ loader.phase = "called"
  /\ i \in DOMAIN loader.images
  /\ loader.images[i].events < MaxEvents
  /\ loader' = IF loader.images[i].listening
               THEN [loader EXCEPT !.images[i].events = @ + 1,
                                   !.loadedCount = @ + 1,
                                   !.resolved = @ \/ CountReached(loader.loadedCount + 1, loader.totalImages)]
               ELSE [loader EXCEPT !.images[i].events = @ + 1]
  /\ UNCHANGED <<page, sess, hist, requestsLeft, dom, popup>>

TimerFire_Lost ==
  /\ loader.phase = "called"
  /\ loader.timer = "pending"
  /\ loader' = [loader EXCEPT !.timer = "fired"]
  /\ UNCHANGED <<page, sess, hist, requestsLeft, dom, popup>>

\* Timeout after 5 seconds: the timer calls resolve
TimerFire ==
  /\ loader.phase = "called"
  /\ loader.timer = "pending"
  /\ loader' = [loader EXCEPT !.timer = "fired", !.resolved = TRUE]
  /\ UNCHANGED <<page, sess, hist, requestsLeft, dom, popup>>

NextLoader ==
  \/ EnsureImagesLoaded
  \/ \E i \in 1..MaxImages : ImageEvent(i)
  \/ TimerFire

\* the event loop runs the call and a timer that is due; no image has to fire
SpecLoader ==
  InitLoader /\ [][NextLoader]_vars /\ WF_vars(EnsureImagesLoaded) /\ WF_vars(TimerFire)

\* ---- the popup ----

NewPopup ==
  [ phase |-> "open", disabled |-> FALSE, status |-> "", pc |-> "idle", sent |-> 0 ]

InitPopup ==
  /\ popup = NewPopup
  /\ page \in { p \in Pages(ConcViewport, ConcScrollHeight, {2}) : PageOk(p) }
  /\ sess = [s \in Sessions |-> IdleSession]
  /\ hist = [s \in Sessions |-> NoHist]
  /\ requestsLeft = 0
  /\ dom = NoDom /\ loader = NoLoader

\* a click on captureBtn (a disabled button receives no click): the handler
\* disables the button, sets the status and awaits chrome.tabs.query
Click ==
  /\ popup.phase = "open"
  /\ ~popup.disabled
  /\ popup.sent < Cardinality(Sessions)
  /\ popup' = [popup EXCEPT !.disabled = TRUE, !.status = "Capturing...", !.pc = "query"]
  /\ UNCHANGED <<page, sess, hist, requestsLeft, dom, loader>>

\* chrome.tabs.query settles: the handler sends the captureScreenshot message,
\* or an error is thrown and the catch block enables the button
Query ==
  /\ popup.pc = "query"
  /\ \/ /\ popup' = [popup EXCEPT !.pc = "waiting", !.sent = @ + 1]
        /\ requestsLeft' = requestsLeft + 1
     \/ /\ popup' = [popup EXCEPT !.pc = "idle", !.disabled = FALSE,
                                  !.status = "Error capturing screenshot"]
        /\ UNCHANGED requestsLeft
  /\ UNCHANGED <<page, sess, hist, dom, loader>>

\* the sendMessage callback runs with the response of the popup's request
Callback ==
  /\ popup.pc = "waiting"
  /\ popup.sent \in Sessions
  /\ Len(hist[popup.sent].responses) > 0
  /\ popup' = IF hist[popup.sent].responses[1].success
              THEN [popup EXCEPT !.pc = "timer", !.status = "Screenshot saved!"]
              ELSE [popup EXCEPT !.pc = "idle", !.disabled = FALSE, !.status = "Error"]
  /\ UNCHANGED <<page, sess, hist, requestsLeft, dom, loader>>

\* the 2000 ms timer set after a success response
Timer ==
  /\ popup.pc = "timer"
  /\ popup' = [popup EXCEPT !.pc = "idle", !.disabled = FALSE, !.status = ""]
  /\ UNCHANGED <<page, sess, hist, requestsLeft, dom, loader>>

NextPopup ==
  \/ SessionStep
  \/ Click
  \/ Query
  \/ Callback
  \/ Timer

\* a step of the background script alone
BackgroundStep ==
  \E s \in Sessions :
    \/ Request(s) \/ Probe(s) \/ ScrollTop(s) \/ SettleTop(s) \/ Capture(s)
    \/ ScrollStep(s) \/ Settle(s) \/ Restore(s) \/ Stitch(s) \/ Download(s) \/ Respond(s)

\* the browser runs every continuation, callback and timer that is due; the
\* user need not click
SpecPopup ==
  /\ InitPopup /\ [][NextPopup]_vars
  /\ WF_vars(BackgroundStep) /\ WF_vars(Query) /\ WF_vars(Callback) /\ WF_vars(Timer)

\* ---- properties ----

HasOp(s, name) == \E k \in 1..Len(hist[s].log) : hist[s].log[k].op = name
DidOp(s, name) == \E k \in 1..Len(hist[s].log) : hist[s].log[k].op = name /\ hist[s].log[k].ok
LoopLeft(s) == HasOp(s, "restore")
Stitched(s) == DidOp(s, "stitch")
Ended(s) == sess[s].pc \in {"done", "failed", "closed"}
InFlight(s) == sess[s].pc \notin {"idle", "closed"}

\* C1: once the capture loop has ended, the number of recorded steps is
\* ceil(totalExtent / stepSize), for every geometry with a positive
\* stepSize <= viewportExtent.
C1_StepCount ==
  \A s \in Sessions :
    (LoopLeft(s) /\ sess[s].stepSize > 0 /\ sess[s].stepSize <= sess[s].info.viewportHeight)
      => Len(sess[s].screenshots) = CeilDiv(sess[s].info.scrollHeight, sess[s].stepSize)

C1_Witness ==
  \E s \in Sessions :
    /\ LoopLeft(s)
    /\ sess[s].info.scrollHeight = 30 /\ sess[s].info.viewportHeight = 10
    /\ sess[s].stepSize = 7 /\ Len(sess[s].screenshots) = 5

\* C2: the capture loop ends within a hard ceiling of passes: no session
\* takes more passes than the page has rows, which is the number of passes the
\* smallest positive step needs.
C2_HardCeiling ==
  \A s \in Sessions : Len(sess[s].screenshots) <= sess[s].info.scrollHeight

\* the canvas rows a drawImage call writes: a rectangle of device pixels
\* [destY, destY + height) touches row r when it meets [r, r + 1), and fills
\* it when it contains [r, r + 1)
Touches(d, r) == d.drawn /\ d.destY2 < 2 * r + 2 /\ d.destY2 + d.height2 > 2 * r
Fills(d, r) == d.drawn /\ d.destY2 <= 2 * r /\ d.destY2 + d.height2 >= 2 * r + 2
Writers(s, r) == { i \in 1..Len(sess[s].draws) : Touches(sess[s].draws[i], r) }

\* C3: when stepSize < viewportExtent, every row of the canvas is written by
\* exactly one source image: the drawn rectangles partition the canvas rows
\* with no overlap and no gap.
C3_ExactPartition ==
  \A s \in Sessions :
    (Stitched(s) /\ sess[s].stepSize < sess[s].info.viewportHeight)
      => \A r \in 0..(CanvasRows(sess[s].info.scrollHeight, sess[s].info.dpr2) - 1) :
           /\ Cardinality(Writers(s, r)) = 1
           /\ \A i \in Writers(s, r) : Fills(sess[s].draws[i], r)

\* C4: every drawn destination rectangle lies within [0, canvasHeight), the
\* last captured step is drawn, and its rectangle ends exactly at row
\* totalExtent * dpr.
C4_DestWithinCanvas ==
  \A s \in Sessions :
    Stitched(s) =>
      LET d == sess[s].draws
          canvasHeight2 == CanvasHeight2(sess[s].info.scrollHeight, sess[s].info.dpr2)
      IN /\ \A i \in 1..Len(d) :
              d[i].drawn => (d[i].destY2 >= 0 /\ d[i].destY2 + d[i].height2 <= canvasHeight2)
         /\ Len(d) > 0 => (d[Len(d)].drawn /\ d[Len(d)].destY2 + d[Len(d)].height2 = canvasHeight2)

\* C5: a page that fits in one viewport (totalExtent <= viewportExtent) gives
\* exactly one step, drawn whole by a single untrimmed draw.
C5_SingleStep ==
  \A s \in Sessions :
    (Stitched(s) /\ sess[s].info.scrollHeight <= sess[s].info.viewportHeight)
      => /\ Len(sess[s].screenshots) = 1
         /\ Len(sess[s].draws) = 1
         /\ sess[s].draws[1].drawn /\ sess[s].draws[1].full

\* C6: at most one capture session is in flight against the tab at a time.
C6_OneSessionPerTab ==
  Cardinality({ s \in Sessions : InFlight(s) }) <= 1

\* C7: every ended session whose probing succeeded has attempted the scroll
\* back to originalScrollOffset.
C7_RestoreAttempted ==
  \A s \in Sessions : (Ended(s) /\ DidOp(s, "probe")) => HasOp(s, "restore")

\* C8: a failing restore call never makes the session fail.
C8_RestoreNotFatal ==
  \A s \in Sessions :
    sess[s].pc = "failed" => hist[s].log[Len(hist[s].log)].op # "restore"

\* the message of the error a failing call rejects with
ErrorKind(op) ==
  CASE op = "probe" -> "ProbeFailed"
    [] op \in {"scroll", "loopscroll", "restore"} -> "ScrollFailed"
    [] op = "capture" -> "CaptureFailed"
    [] op = "stitch" -> "StitchFailed"
    [] op = "download" -> "DownloadFailed"
    [] OTHER -> "none"

AllCompleted(s) ==
  /\ \A k \in 1..Len(hist[s].log) : hist[s].log[k].ok
  /\ DidOp(s, "probe") /\ DidOp(s, "restore") /\ DidOp(s, "stitch") /\ DidOp(s, "download")
  /\ ~(sess[s].position < sess[s].info.scrollHeight)
  /\ Cardinality({ k \in 1..Len(hist[s].log) : hist[s].log[k].op = "capture" })
       = Len(sess[s].screenshots)

\* C9: a session that has ended and answered has sent exactly one response:
\* success only when probing, every capture, the restore, the stitching and
\* the download completed, otherwise a failure carrying the message of the
\* error that aborted the session.
C9_OneResponse ==
  \A s \in Sessions :
    /\ Len(hist[s].responses) <= 1
    /\ (sess[s].pc = "closed") <=> (Len(hist[s].responses) = 1)
    /\ \A k \in 1..Len(hist[s].responses) :
         LET r == hist[s].responses[k]
             last == hist[s].log[Len(hist[s].log)]
         IN IF r.success
            THEN AllCompleted(s) /\ r.error = "none"
            ELSE ~last.ok /\ r.error = ErrorKind(last.op)

C9_Witness ==
  \E s \in Sessions :
    /\ sess[s].pc = "closed" /\ Len(hist[s].responses) = 1
    /\ ~hist[s].responses[1].success
    /\ hist[s].responses[1].error = "CaptureFailed"
    /\ Len(sess[s].screenshots) >= 1

LoopScrolls(s) == { k \in 1..Len(hist[s].log) : hist[s].log[k].op = "loopscroll" }

\* C10 as stated: every offset passed to the scroll driver in the loop lies in
\* [0, totalExtent - viewportExtent].
C10_OffsetClamped ==
  \A s \in Sessions : \A k \in LoopScrolls(s) :
    /\ hist[s].log[k].arg >= 0
    /\ hist[s].log[k].arg <= sess[s].info.scrollHeight - sess[s].info.viewportHeight

\* C10 amended: every offset passed to the scroll driver in the loop is a
\* multiple of stepSize in [0, totalExtent): it is below totalExtent,
\* not clamped to totalExtent - viewportExtent.
C10_OffsetBelowExtent ==
  \A s \in Sessions : \A k \in LoopScrolls(s) :
    /\ hist[s].log[k].arg >= 0
    /\ hist[s].log[k].arg < sess[s].info.scrollHeight
    /\ \E n \in 1..sess[s].info.scrollHeight : hist[s].log[k].arg = n * sess[s].stepSize

C10_Witness ==
  \E s \in Sessions : \E k \in LoopScrolls(s) :
    /\ hist[s].log[k].ok
    /\ hist[s].log[k].arg > sess[s].info.scrollHeight - sess[s].info.viewportHeight
    /\ sess[s].info.scrollHeight > sess[s].info.viewportHeight

\* C11: the recorded steps are in capture order with non-decreasing offsets,
\* and the step with (0-based) index i carries the requested offset
\* i * stepSize.
C11_OffsetsInOrder ==
  \A s \in Sessions :
    LET shots == sess[s].screenshots
    IN /\ \A i \in 1..Len(shots) : shots[i].position = (i - 1) * sess[s].stepSize
       /\ \A i \in 1..(Len(shots) - 1) : shots[i].position <= shots[i + 1].position

C11_Witness ==
  \E s \in Sessions :
    /\ sess[s].pc = "download"
    /\ sess[s].info.scrollHeight = 30 /\ sess[s].info.viewportHeight = 10
    /\ sess[s].stepSize = 7
    /\ [ i \in 1..Len(sess[s].screenshots) |-> sess[s].screenshots[i].position ]
         = <<0, 7, 14, 21, 28>>

\* C12: a session whose probing call failed has failed, and has made no other
\* call: no scroll, no capture, no stitching, no download.
C12_ProbeFailureFatal ==
  \A s \in Sessions :
    (Len(hist[s].log) > 0 /\ hist[s].log[1].op = "probe" /\ ~hist[s].log[1].ok)
      => /\ Len(hist[s].log) = 1
         /\ sess[s].pc \in {"failed", "closed"}
         /\ sess[s].error = "ProbeFailed"
         /\ sess[s].screenshots = <<>> /\ sess[s].draws = <<>>
         /\ \A k \in 1..Len(hist[s].responses) : ~hist[s].responses[k].success

C12_Witness ==
  \E s \in Sessions :
    /\ sess[s].pc = "closed"
    /\ hist[s].log = << Op("probe", 0, FALSE) >>
    /\ page.height > page.viewportHeight /\ page.viewportHeight > 1

Downloads(s) == { k \in 1..Len(hist[s].log) : hist[s].log[k].op = "download" }

\* C13: a session calls the download at most once, and only after every
\* capture step of the loop and the stitching have succeeded: a session that
\* failed in scrolling, capturing or stitching never calls it.
C13_DownloadAfterStitch ==
  \A s \in Sessions :
    /\ Cardinality(Downloads(s)) <= 1
    /\ \A k \in Downloads(s) :
         /\ k > 1 /\ hist[s].log[k - 1].op = "stitch"
         /\ \A j \in 1..(k - 1) : hist[s].log[j].ok
         /\ ~(sess[s].position < sess[s].info.scrollHeight)
         /\ Cardinality({ j \in 1..(k - 1) : hist[s].log[j].op = "capture" })
              = Len(sess[s].screenshots)
         /\ Len(sess[s].draws) = Len(sess[s].screenshots)

C13_Witness ==
  \E s \in Sessions :
    /\ sess[s].pc = "done"
    /\ Cardinality(Downloads(s)) = 1
    /\ Len(sess[s].screenshots) >= 3

\* C15: with devicePixelRatio 2.5 the canvas has totalExtent * dpr rows, every
\* destination coordinate of a drawn step is a whole device pixel, and no
\* canvas row is assigned to two steps.
C15_ConsistentRounding ==
  \A s \in Sessions :
    (Stitched(s) /\ sess[s].info.dpr2 = 5)
      => /\ 2 * CanvasRows(sess[s].info.scrollHeight, sess[s].info.dpr2)
              = CanvasHeight2(sess[s].info.scrollHeight, sess[s].info.dpr2)
         /\ \A i \in 1..Len(sess[s].draws) :
              sess[s].draws[i].drawn
                => (sess[s].draws[i].destY2 % 2 = 0 /\ sess[s].draws[i].height2 % 2 = 0)
         /\ \A r \in 0..(CanvasRows(sess[s].info.scrollHeight, sess[s].info.dpr2) - 1) :
              Cardinality(Writers(s, r)) <= 1

\* the calls that may directly precede the k-th call of a session
OrderedAt(s, k) ==
  LET log == hist[s].log
      cur == log[k]
      prev == log[k - 1]
  IN IF k = 1 THEN cur.op = "probe"
     ELSE /\ prev.ok
          /\ CASE cur.op = "scroll" -> prev.op = "probe"
               [] cur.op = "settle" ->
                    \/ cur.arg = 500 /\ prev.op = "scroll"
                    \/ cur.arg = 800 /\ prev.op = "loopscroll"
               [] cur.op = "capture" ->
                    /\ prev.op = "settle" /\ k > 2
                    /\ log[k - 2].op \in {"scroll", "loopscroll"}
                    /\ log[k - 2].arg = cur.arg
               [] cur.op = "loopscroll" ->
                    /\ prev.op = "capture"
                    /\ cur.arg = prev.arg + sess[s].stepSize
                    /\ cur.arg < sess[s].info.scrollHeight
               [] cur.op = "restore" ->
                    \/ prev.op = "capture"
                         /\ prev.arg + sess[s].stepSize >= sess[s].info.scrollHeight
                    \/ prev.op = "settle" /\ prev.arg = 500
                         /\ sess[s].info.scrollHeight <= 0
               [] cur.op = "stitch" -> prev.op = "restore"
               [] cur.op = "download" -> prev.op = "stitch"
               [] OTHER -> FALSE

\* C16: the calls of one session occur in the order probe, scroll to 0,
\* settle, then per step a capture followed (when another step remains) by the
\* scroll to the next offset and a settle, then restore, stitch, download:
\* every capture directly follows the settle after the scroll to its recorded
\* offset, and a failed call is the session's last.
C16_StrictOrder ==
  \A s \in Sessions :
    /\ \A k \in 1..Len(hist[s].log) : OrderedAt(s, k)
    /\ \A i \in 1..Len(sess[s].screenshots) :
         \E k \in 3..Len(hist[s].log) :
           /\ hist[s].log[k] = Op("capture", sess[s].screenshots[i].position, TRUE)
           /\ hist[s].log[k - 2].arg = sess[s].screenshots[i].position

C16_Witness ==
  \E s \in Sessions :
    /\ sess[s].pc = "done"
    /\ Len(sess[s].screenshots) = 3
    /\ sess[s].stepSize = 2
    /\ Len(hist[s].log) = 13

ScrollOps == {"scroll", "loopscroll", "restore"}

\* C17: in a session whose captures all succeeded and whose restore call ran,
\* the last scroll command of the session is the restore, its offset is the
\* scroll position the target had when it was probed, and it leaves the target
\* at that position whatever offsets the loop requested.
C17_RestoresOriginal ==
  \A s \in Sessions :
    DidOp(s, "restore") =>
      LET log == hist[s].log
          k == CHOOSE j \in 1..Len(log) : log[j].op = "restore"
      IN /\ log[1].op = "probe"
         /\ log[k].arg = log[1].arg
         /\ \A j \in (k + 1)..Len(log) : log[j].op \notin ScrollOps
         /\ page.scrollTop[MarkerTarget(page.marker)] = log[1].arg

C17_Witness ==
  \E s \in Sessions :
    /\ DidOp(s, "restore")
    /\ hist[s].log[1].arg = 1
    /\ Len(sess[s].screenshots) = 5
    /\ \E k \in LoopScrolls(s) :
         hist[s].log[k].arg > sess[s].info.scrollHeight - sess[s].info.viewportHeight
    /\ page.scrollTop[MarkerTarget(page.marker)] = 1

RootQualifies(d) == Max(d.docScrollHeight, d.bodyScrollHeight) > d.innerHeight
FirstQualifying(d) ==
  IF \E i \in 1..Len(Selectors) : d.elems[i].present /\ d.elems[i].scrollHeight > d.elems[i].clientHeight
  THEN CHOOSE i \in 1..Len(Selectors) :
         /\ d.elems[i].present /\ d.elems[i].scrollHeight > d.elems[i].clientHeight
         /\ \A j \in 1..(i - 1) :
              ~(d.elems[j].present /\ d.elems[j].scrollHeight > d.elems[j].clientHeight)
  ELSE 0
ReadFrom(d, t) ==
  /\ d.result.scrollHeight = IF t # 0 THEN d.elems[t].scrollHeight
                             ELSE Max(d.docScrollHeight, d.bodyScrollHeight)
  /\ d.result.currentScroll = IF t # 0 THEN d.elems[t].scrollTop ELSE d.scrollY

\* C14 as stated: the page root is probed first, then the selectors in
\* priority order; the first candidate whose scroll extent strictly exceeds
\* its visible extent is the target (the root when none qualifies), and
\* totalExtent and originalScrollOffset are read from it.
C14_RootFirst ==
  dom.phase = "probed" =>
    LET t == IF RootQualifies(dom) THEN 0 ELSE FirstQualifying(dom)
    IN dom.scrollTarget = t /\ ReadFrom(dom, t)

\* C14 amended: only the selectors are probed, in priority order; the first
\* matching element whose scrollHeight strictly exceeds its clientHeight is the
\* target even when the page root scrolls too, the root is the target only
\* when no selector qualifies, and totalExtent and originalScrollOffset are
\* read from the chosen target.
C14_SelectorsFirst ==
  dom.phase = "probed" =>
    /\ dom.scrollTarget = FirstQualifying(dom)
    /\ ReadFrom(dom, FirstQualifying(dom))

C14_Witness ==
  /\ dom.phase = "probed"
  /\ RootQualifies(dom)
  /\ dom.scrollTarget = 3
  /\ dom.elems[1].present /\ dom.elems[1].scrollHeight = dom.elems[1].clientHeight
  /\ dom.elems[4].present /\ dom.elems[4].scrollHeight > dom.elems[4].clientHeight
  /\ dom.result.currentScroll = 1

AllImagesDone ==
  \A i \in DOMAIN loader.images : loader.images[i].complete \/ loader.images[i].events > 0

\* C19: the promise of ensureImagesLoaded is resolved at once when the page
\* has no images, is resolved whenever every image is complete or has fired
\* load or error, is resolved once the 5-second timer has fired, and is
\* always eventually resolved.
C19_AlwaysResolves ==
  /\ [](loader.phase = "called" /\ Len(loader.images) = 0 => loader.resolved)
  /\ [](loader.phase = "called" /\ AllImagesDone => loader.resolved)
  /\ [](loader.phase = "called" /\ loader.timer = "fired" => loader.resolved)
  /\ (loader.phase = "called" ~> loader.resolved)

C19_Witness ==
  /\ loader.phase = "called"
  /\ loader.resolved /\ loader.timer = "fired"
  /\ Len(loader.images) = 3
  /\ loader.loadedCount = 2
  /\ \E i \in DOMAIN loader.images : ~loader.images[i].complete /\ loader.images[i].events = 0

\* the popup's requests that have been sent and not yet answered
PopupInFlight == requestsLeft + Cardinality({ s \in Sessions : InFlight(s) })

\* C18: in one popup the button is disabled from the click until the response
\* has been handled (and on for the 2 seconds after a success), the popup
\* never has two requests in flight, and a disabled button is always
\* eventually enabled again.
C18_ButtonCycle ==
  /\ [](popup.pc \in {"query", "waiting", "timer"} => popup.disabled)
  /\ [](PopupInFlight <= 1)
  /\ (popup.disabled ~> ~popup.disabled)

\* the part of C18 that does not depend on the session ending
C18_ButtonGuards ==
  /\ popup.pc \in {"query", "waiting", "timer"} => popup.disabled
  /\ popup.pc = "idle" => ~popup.disabled
  /\ PopupInFlight <= 1
  /\ PopupInFlight = 1 => popup.pc = "waiting"
====
